---- MODULE Spec2Model ----
(***************************************************************************)
(* The vi editing core of the readline library: the session fields         *)
(* (buffer, cursor, mark, modes, iteration string, registers), the vi      *)
(* widgets of the widget table and the helpers they call.  Buffer indices  *)
(* are 0-based as in the Go source; TLA+ sequences are 1-based, so         *)
(* line[i] of the source is At(l, i) here.                                 *)
(***************************************************************************)
EXTENDS Integers, Sequences, FiniteSets, TLC

VARIABLES line, pos, mark, main, local, activeRegion, visualLine,
          viIteration, viUndoSkipAppend, registers, pendingOp,
          aborted, nkeys, ev,
          tfLine, hintText, regexSearch, regexpMode, modeTabFind,
          modeAutoFind, nCompletion, nfind

\* the state of the completion search
findVars == <<tfLine, hintText, regexSearch, regexpMode, modeTabFind,
              modeAutoFind, nCompletion, nfind>>

vars == <<line, pos, mark, main, local, activeRegion, visualLine,
          viIteration, viUndoSkipAppend, registers, pendingOp,
          aborted, nkeys, ev, findVars>>

----------------------------------------------------------------------------
(* Bounds of the model. *)

\* longest buffer an edit may produce
MaxLen == 4
\* number of keys (widget invocations) of one session
MaxKeys == 2
\* longest iteration string
MaxDigits == 2
\* most keys typed in one stay in replace mode
MaxReplaceKeys == 2
MaxFindKeys == 4

----------------------------------------------------------------------------
(* Mode names and runes. *)

viins == "viins"
vicmd == "vicmd"
visual == "visual"
viopp == "viopp"

\* the rune 0 that viReplace caches for an appended character
NUL == "NUL"
charBackspace == "BS"
charEscape == "ESC"

Lower == {"a"}
Upper == {"A"}
Blank == {" "}
Punct == {"(", ")", "'", "\""}
Runes == Lower \cup Upper \cup Blank \cup Punct

\* the buffers a session starts from
InitLines ==
    { <<>>, <<"a">>, <<"a", " ", "A">>, <<"(", "a", ")">>,
      <<"'", "a", "'">>, <<"a", "\"">>, <<" ", "a">> }

\* the keys an argument read may deliver besides escape
ArgKeys == {"A", ")", "'"}
\* the digits the digit-argument widget is bound to
Digits == {"1", "2"}
\* the runes typed in replace mode
ReplaceKeys == {"A", charBackspace}
\* the two search modes of the completion search line
HistoryFind == 0
CompletionFind == 1
\* the runes typed into the search line
FindRunes == {"a", "(", ")"}
\* rl.regexSearch: nil, or the regex compiled from a pattern
NoRegex == [compiled |-> FALSE, pattern |-> <<>>]

\* what the external editor may hand back
EditorLines == { <<>>, <<"a">>, <<"a", " ", "A">> }

Min2(a, b) == IF a < b THEN a ELSE b
Max2(a, b) == IF a > b THEN a ELSE b
MinOf(S) == CHOOSE x \in S : \A y \in S : x <= y
MaxOf(S) == CHOOSE x \in S : \A y \in S : x >= y

\* l[i] of the source, for 0 <= i < len(l)
At(l, i) == l[i + 1]
\* l[b:e] of the source, for 0 <= b <= e <= len(l)
Slice(l, b, e) == SubSeq(l, b + 1, e)
\* whether l[i] is an index the runtime accepts
InIndex(l, i) == 0 <= i /\ i < Len(l)
\* whether l[b:e] (e = len(l) for l[b:]) is a slice the runtime accepts
InSlice(l, b, e) == 0 <= b /\ b <= e /\ e <= Len(l)

\* unicode.IsLower / ToUpper / ToLower on the runes of the model
IsLower(c) == c \in Lower
ToUpper(c) == IF c = "a" THEN "A" ELSE c
ToLower(c) == IF c = "A" THEN "a" ELSE c
SwapRune(c) == IF IsLower(c) THEN ToUpper(c) ELSE ToLower(c)

\* the session stops: an index or slice out of range aborts the program
Panic(s) == [s EXCEPT !.ok = FALSE]

----------------------------------------------------------------------------
(* Iteration accumulator. *)

addIteration(s, d) ==
    IF d = "" THEN [s EXCEPT !.viIteration = <<>>]
    ELSE [s EXCEPT !.viIteration = Append(@, d)]

DigitVal(d) == CASE d = "0" -> 0 [] d = "1" -> 1 [] d = "2" -> 2

RECURSIVE ParseInt(_)
ParseInt(ds) ==
    IF ds = <<>> THEN 0
    ELSE 10 * ParseInt(SubSeq(ds, 1, Len(ds) - 1)) + DigitVal(ds[Len(ds)])

\* the count getViIterations returns
Iterations(s) == IF s.viIteration = <<>> THEN 1 ELSE ParseInt(s.viIteration)
\* the state getViIterations leaves: the iteration string is consumed
getViIterations(s) == [s EXCEPT !.viIteration = <<>>]

----------------------------------------------------------------------------
(* Register store. *)

validRegisterKeys == {"r"}
NoReg == [buf |-> <<>>, lineWise |-> FALSE]
InitRegisters ==
    [unnamed |-> NoReg, named |-> [k \in validRegisterKeys |-> NoReg],
     onRegister |-> FALSE, current |-> "r"]

resetRegister(r) == [r EXCEPT !.onRegister = FALSE]
setActiveRegister(r, k) == [r EXCEPT !.onRegister = TRUE, !.current = k]

\* save to the armed register or else to the default one; the call carries
\* no kind, so what it stores is tagged character-wise
saveBufToRegister(s, buf) ==
    LET r == s.registers
        e == [buf |-> buf, lineWise |-> FALSE]
    IN  [s EXCEPT !.registers =
            IF r.onRegister
            THEN resetRegister([r EXCEPT !.named[r.current] = e])
            ELSE [r EXCEPT !.unnamed = e]]

\* the vii runes from the cursor on
saveToRegister(s, vii) ==
    LET n == Len(s.line)
        b == Max2(0, Min2(s.pos, n))
        e == Max2(b, Min2(s.pos + vii, n))
    IN  saveBufToRegister(s, Slice(s.line, b, e))

\* the content paste inserts
PasteBuffer(s) ==
    IF s.registers.onRegister
    THEN s.registers.named[s.registers.current].buf
    ELSE s.registers.unnamed.buf
pasteFromRegister(s) == [s EXCEPT !.registers = resetRegister(@)]

----------------------------------------------------------------------------
(* Line edits. *)

\* insert r at the cursor and move the cursor past it
insert(s, r) ==
    LET n == Len(s.line)
        p == Max2(0, Min2(s.pos, n))
    IN  [s EXCEPT !.line = Slice(s.line, 0, p) \o r \o Slice(s.line, p, n),
                  !.pos = s.pos + Len(r)]

\* delete the rune under the cursor
deletex(s) ==
    LET n == Len(s.line)
    IN  IF n = 0 THEN s
        ELSE IF s.pos >= n
        THEN [s EXCEPT !.line = Slice(s.line, 0, n - 1), !.pos = n - 1]
        ELSE IF s.pos < 0 THEN s
        ELSE [s EXCEPT !.line = Slice(s.line, 0, s.pos) \o Slice(s.line, s.pos + 1, n)]

\* delete the rune before the cursor
deleteX(s) ==
    LET n == Len(s.line)
    IN  IF n = 0 \/ s.pos <= 0 THEN s
        ELSE IF s.pos > n
        THEN [s EXCEPT !.line = Slice(s.line, 0, n - 1), !.pos = n - 1]
        ELSE [s EXCEPT !.line = Slice(s.line, 0, s.pos - 1) \o Slice(s.line, s.pos, n),
                       !.pos = s.pos - 1]

----------------------------------------------------------------------------
(* Cursor movement. *)

\* apply a delta and clamp: never below 0, never past the line, and on
\* the last rune rather than past it outside insert mode
moveCursorByAdjust(s, adjust) ==
    LET n  == Len(s.line)
        p1 == s.pos + adjust
        p2 == IF p1 < 0 THEN 0 ELSE IF p1 > n THEN n ELSE p1
        p3 == IF s.main # viins /\ p2 = n /\ n > 0 THEN n - 1 ELSE p2
    IN  [s EXCEPT !.pos = p3]

beginningOfLine(s) == [s EXCEPT !.pos = 0, !.viUndoSkipAppend = TRUE]

tokeniseLine == "tokeniseLine"
tokeniseSplitSpaces == "tokeniseSplitSpaces"

Class(c) == IF c \in Blank THEN "blank"
            ELSE IF c \in Punct THEN "punct" ELSE "word"
\* the class a tokeniser sees: split-spaces only tells blank from non-blank
TokClass(tok, c) ==
    IF tok = tokeniseSplitSpaces /\ c \notin Blank THEN "word" ELSE Class(c)

TokStart(tok, l, j) ==
    /\ InIndex(l, j)
    /\ TokClass(tok, At(l, j)) # "blank"
    /\ (j = 0 \/ TokClass(tok, At(l, j - 1)) # TokClass(tok, At(l, j)))
TokEnd(tok, l, j) ==
    /\ InIndex(l, j)
    /\ TokClass(tok, At(l, j)) # "blank"
    /\ (j = Len(l) - 1 \/ TokClass(tok, At(l, j + 1)) # TokClass(tok, At(l, j)))

\* delta to the start of the next word, 0 when there is none
viJumpW(s, tok) ==
    LET J == {j \in 0..(Len(s.line) - 1) : j > s.pos /\ TokStart(tok, s.line, j)}
    IN  IF J = {} THEN 0 ELSE MinOf(J) - s.pos
\* delta to the start of the previous word, 0 when there is none
viJumpB(s, tok) ==
    LET J == {j \in 0..(Len(s.line) - 1) : j < s.pos /\ TokStart(tok, s.line, j)}
    IN  IF J = {} THEN 0 ELSE MaxOf(J) - s.pos
\* delta to the next word end strictly after the cursor, 0 when there is none
viJumpE(s, tok) ==
    LET J == {j \in 0..(Len(s.line) - 1) : j > s.pos /\ TokEnd(tok, s.line, j)}
    IN  IF J = {} THEN 0 ELSE MinOf(J) - s.pos

isBracket(c) == c \in {"(", ")", "{", "}", "[", "]"}
Opening == {"(", "{", "["}
Partner(c) == CASE c = "(" -> ")" [] c = ")" -> "(" [] c = "{" -> "}"
                [] c = "}" -> "{" [] c = "[" -> "]" [] c = "]" -> "["

\* nesting depth of the bracket kind of c over l[a..b] (inclusive)
RECURSIVE Depth(_, _, _, _)
Depth(l, c, a, b) ==
    IF a > b THEN 0
    ELSE Depth(l, c, a, b - 1)
         + (IF At(l, b) = c THEN 1 ELSE IF At(l, b) = Partner(c) THEN -1 ELSE 0)

\* delta from the bracket under the cursor to its partner, 0 when there is none
viJumpBracket(s) ==
    LET l == s.line
        p == s.pos
    IN  IF ~InIndex(l, p) \/ ~isBracket(At(l, p)) THEN 0
        ELSE LET c == At(l, p)
                 J == IF c \in Opening
                      THEN {j \in (p + 1)..(Len(l) - 1) : Depth(l, c, p, j) = 0}
                      ELSE {j \in 0..(p - 1) : Depth(l, c, j, p) = 0}
             IN  IF J = {} THEN 0
                 ELSE IF c \in Opening THEN MinOf(J) - p ELSE MaxOf(J) - p

\* move to the times-th occurrence of key in the direction, or next to it
\* with skip; no such occurrence: no movement
findAndMoveCursor(s, key, times, forward, skip) ==
    LET l == s.line
        M == {j \in 0..(Len(l) - 1) :
                 At(l, j) = key /\ (IF forward THEN j > s.pos ELSE j < s.pos)}
        Nth == {j \in M : Cardinality({k \in M : IF forward THEN k <= j ELSE k >= j}) = times}
    IN  IF Nth = {} THEN s
        ELSE LET t == CHOOSE j \in Nth : TRUE
             IN  [s EXCEPT !.pos = IF ~skip THEN t
                                   ELSE IF forward THEN t - 1 ELSE t + 1]

----------------------------------------------------------------------------
(* Modes and the selection. *)

\* entering the variant that is already active leaves visual mode
enterVisualMode(s) ==
    IF s.local = visual /\ ~s.visualLine
    THEN [s EXCEPT !.local = "", !.mark = -1, !.activeRegion = FALSE]
    ELSE [s EXCEPT !.local = visual, !.visualLine = FALSE,
                   !.mark = IF s.local = visual THEN s.mark ELSE s.pos,
                   !.activeRegion = TRUE]

enterVisualLineMode(s) ==
    IF s.local = visual /\ s.visualLine
    THEN [s EXCEPT !.local = "", !.visualLine = FALSE, !.mark = -1,
                   !.activeRegion = FALSE]
    ELSE [s EXCEPT !.local = visual, !.visualLine = TRUE,
                   !.mark = IF s.local = visual THEN s.mark ELSE s.pos,
                   !.activeRegion = TRUE]

\* operator-pending mode: remember the mode it overlays and, when given,
\* the operator that waits for its argument
enterVioppMode(s, widget) ==
    [s EXCEPT !.savedLocal = IF s.local = viopp THEN @ ELSE s.local,
              !.local = viopp,
              !.pendingOp = IF widget = "" THEN @ ELSE widget]

\* back to the mode that was active before entry
exitVioppMode(s) == [s EXCEPT !.local = s.savedLocal]

\* a variant that takes the mark as begin and the cursor as last rune
getSelectionFromMark(s) ==
    IF s.visualLine
    THEN [bpos |-> 0, epos |-> Len(s.line), cpos |-> 0]
    ELSE [bpos |-> s.mark, epos |-> s.pos + 1, cpos |-> s.mark]

\* begin, end (exclusive) and the position the cursor returns to
getSelection(s) ==
    IF s.visualLine
    THEN [bpos |-> 0, epos |-> Len(s.line), cpos |-> 0]
    ELSE [bpos |-> Min2(s.mark, s.pos), epos |-> Max2(s.mark, s.pos) + 1,
          cpos |-> Min2(s.mark, s.pos)]

resetSelection(s) == [s EXCEPT !.mark = -1, !.activeRegion = FALSE]

\* the part of the selection that lies in the buffer
SelBegin(s) == Max2(0, Min2(getSelection(s).bpos, Len(s.line)))
SelEnd(s) == Max2(SelBegin(s), Min2(getSelection(s).epos, Len(s.line)))

\* copy the selection into the register; the buffer stays
yankSelection(s) ==
    [saveBufToRegister(s, Slice(s.line, SelBegin(s), SelEnd(s)))
        EXCEPT !.pos = SelBegin(s)]

\* remove [b, e) and put the cursor at b, or on the last rune when b is
\* past the end of what is left
CutRange(s, b, e) ==
    [s EXCEPT !.line = Slice(s.line, 0, b) \o Slice(s.line, e, Len(s.line)),
              !.pos = IF b >= Len(s.line) - (e - b) /\ Len(s.line) - (e - b) > 0
                      THEN Len(s.line) - (e - b) - 1 ELSE b]

\* copy the selection into the register, then remove it
deleteSelection(s) ==
    CutRange(saveBufToRegister(s, Slice(s.line, SelBegin(s), SelEnd(s))),
             SelBegin(s), SelEnd(s))

----------------------------------------------------------------------------
(* The widgets.  Each takes the session s and yields the session it      *)
(* leaves; s.ok = FALSE when the widget aborted the program, s.esc when    *)
(* its argument read returned escape.                                      *)

\* a variant that keeps the visual-line flag
viInsertModeKeepLineFlag(s) ==
    LET s1 == addIteration([s EXCEPT !.local = "", !.main = viins], "")
    IN  [s1 EXCEPT !.mark = -1, !.activeRegion = FALSE]

viInsertMode(s) ==
    LET s1 == addIteration([s EXCEPT !.local = "", !.main = viins], "")
    IN  [s1 EXCEPT !.mark = -1, !.activeRegion = FALSE, !.visualLine = FALSE]

\* a variant that leaves mark and region as they were
viCommandModeKeepRegion(s) ==
    LET s1 == addIteration(s, "")
        back == s.main = viins /\ Len(s.line) > 0 /\ s.pos > 0
    IN  [s1 EXCEPT !.viUndoSkipAppend = TRUE, !.visualLine = FALSE,
                   !.pos = IF back THEN @ - 1 ELSE @,
                   !.local = "", !.main = vicmd]

\* a variant that steps back whatever the main mode was
viCommandModeAlwaysBack(s) ==
    LET s1 == addIteration(s, "")
        back == Len(s.line) > 0 /\ s.pos > 0
    IN  [s1 EXCEPT !.viUndoSkipAppend = TRUE, !.mark = -1,
                   !.activeRegion = FALSE, !.visualLine = FALSE,
                   !.pos = IF back THEN @ - 1 ELSE @,
                   !.local = "", !.main = vicmd]

viCommandMode(s) ==
    LET s1 == addIteration(s, "")
        back == s.main = viins /\ Len(s.line) > 0 /\ s.pos > 0
    IN  [s1 EXCEPT !.viUndoSkipAppend = TRUE, !.mark = -1,
                   !.activeRegion = FALSE, !.visualLine = FALSE,
                   !.pos = IF back THEN @ - 1 ELSE @,
                   !.local = "", !.main = vicmd]

viVisualMode(s) ==
    enterVisualMode([addIteration(s, "") EXCEPT !.viUndoSkipAppend = TRUE])

viVisualLineMode(s) ==
    enterVisualLineMode([addIteration(s, "") EXCEPT !.viUndoSkipAppend = TRUE])

viInsertBol(s) ==
    [addIteration([s EXCEPT !.main = viins], "")
        EXCEPT !.viUndoSkipAppend = TRUE, !.pos = 0]

viAddNext(s) ==
    viInsertMode(IF Len(s.line) > 0 THEN [s EXCEPT !.pos = @ + 1] ELSE s)

viAddEol(s) ==
    viInsertMode(IF Len(s.line) > 0 THEN [s EXCEPT !.pos = Len(s.line)] ELSE s)

\* for i := 1; i <= vii; i++ { rl.moveCursorByAdjust(rl.viJumpX(tok)) }
RECURSIVE JumpLoop(_, _, _, _)
JumpLoop(s, jump, tok, vii) ==
    IF vii <= 0 THEN s
    ELSE LET d == CASE jump = "B" -> viJumpB(s, tok)
                    [] jump = "W" -> viJumpW(s, tok)
                    [] jump = "E" -> viJumpE(s, tok)
         IN  JumpLoop(moveCursorByAdjust(s, d), jump, tok, vii - 1)

viBackwardWord(s) ==
    LET s1 == [s EXCEPT !.viUndoSkipAppend = TRUE]
    IN  JumpLoop(getViIterations(s1), "B", tokeniseLine, Iterations(s1))

viBackwardBlankWord(s) ==
    LET s1 == [s EXCEPT !.viUndoSkipAppend = TRUE]
    IN  JumpLoop(getViIterations(s1), "B", tokeniseSplitSpaces, Iterations(s1))

viKillEol(s) ==
    LET p == IF s.pos < 0 THEN s.pos - 1 ELSE s.pos
    IN  IF ~InSlice(s.line, p, Len(s.line)) THEN Panic(s)
        ELSE LET s1 == saveBufToRegister(s, Slice(s.line, p, Len(s.line)))
                 nl == Slice(s.line, 0, s.pos)
             IN  addIteration([s1 EXCEPT !.line = nl,
                                         !.pos = IF Len(nl) > 0 THEN @ - 1 ELSE @], "")

\* rl.line[:rl.pos] with pos = len+1 reslices into the spare capacity of the
\* backing array when there is one (spare), exposing the stale rune there
viChangeEol(s, spare, stale) ==
    IF ~InSlice(s.line, s.pos - 1, Len(s.line)) THEN Panic(s)
    ELSE IF s.pos > Len(s.line) /\ ~spare THEN Panic(s)
    ELSE LET s1 == saveBufToRegister(s, Slice(s.line, s.pos - 1, Len(s.line)))
             nl == IF s.pos > Len(s.line) THEN Append(s.line, stale)
                   ELSE Slice(s.line, 0, s.pos)
         IN  viInsertMode(addIteration([s1 EXCEPT !.line = nl], ""))

viForwardWordEnd(s) ==
    LET s1 == [s EXCEPT !.viUndoSkipAppend = TRUE]
    IN  JumpLoop(getViIterations(s1), "E", tokeniseLine, Iterations(s1))

viForwardBlankWordEnd(s) ==
    LET s1 == [s EXCEPT !.viUndoSkipAppend = TRUE]
    IN  JumpLoop(getViIterations(s1), "E", tokeniseSplitSpaces, Iterations(s1))

viForwardChar(s) ==
    LET s1 == [s EXCEPT !.viUndoSkipAppend = TRUE]
    IN  IF s.main # viins /\ s.pos < Len(s.line) - 1 THEN [s1 EXCEPT !.pos = @ + 1]
        ELSE IF s.main = viins /\ s.pos < Len(s.line) THEN [s1 EXCEPT !.pos = @ + 1]
        ELSE s1

viBackwardChar(s) ==
    LET s1 == [s EXCEPT !.viUndoSkipAppend = TRUE]
    IN  IF s.pos > 0 THEN [s1 EXCEPT !.pos = @ - 1] ELSE s1

\* for i := 1; i <= vii; i++ { rl.insert(buffer) }
RECURSIVE InsertLoop(_, _, _)
InsertLoop(s, buffer, vii) ==
    IF vii <= 0 THEN s ELSE InsertLoop(insert(s, buffer), buffer, vii - 1)

viPutAfter(s) ==
    LET s1 == [s EXCEPT !.viUndoSkipAppend = TRUE, !.pos = @ + 1]
        s2 == InsertLoop(getViIterations(pasteFromRegister(s1)),
                         PasteBuffer(s1), Iterations(s1))
    IN  [s2 EXCEPT !.pos = @ - 1]

\* a variant that does not consume the count
viPutBeforeKeepCount(s) ==
    LET s1 == [s EXCEPT !.viUndoSkipAppend = TRUE]
    IN  InsertLoop(pasteFromRegister(s1), PasteBuffer(s1), Iterations(s1))

viPutBefore(s) ==
    LET s1 == [s EXCEPT !.viUndoSkipAppend = TRUE]
    IN  InsertLoop(getViIterations(pasteFromRegister(s1)),
                   PasteBuffer(s1), Iterations(s1))

\* for i := bpos; i < epos; i++ { rl.line[i] = key }
FillRange(l, b, e, key) ==
    [i \in 1..Len(l) |-> IF b <= i - 1 /\ i - 1 < e THEN key ELSE l[i]]

viReplaceChars(s, key) ==
    LET s0 == enterVioppMode([s EXCEPT !.viUndoSkipAppend = TRUE], "")
    IN  IF key = charEscape THEN [exitVioppMode(s0) EXCEPT !.esc = TRUE]
        ELSE LET s1 == exitVioppMode(s0)
             IN  IF s1.activeRegion \/ s1.local = visual
                 THEN LET sel == getSelection(s1)
                      IN  IF sel.bpos < sel.epos
                             /\ ~InSlice(s1.line, sel.bpos, sel.epos)
                          THEN Panic(s1)
                          ELSE viCommandMode(
                                 [s1 EXCEPT !.line = FillRange(@, sel.bpos, sel.epos, key),
                                            !.pos = sel.bpos])
                 ELSE [insert(deletex(s1), <<key>>) EXCEPT !.pos = @ - 1]

\* one turn of the replace loop for each key read before escape
RECURSIVE ReplaceLoop(_, _, _)
ReplaceLoop(s, cache, ks) ==
    IF ~s.ok \/ ks = <<>> THEN s
    ELSE LET s0  == enterVioppMode(s, "")
             key == Head(ks)
         IN  IF key = charBackspace
             THEN LET s1 == IF s0.pos > 0 THEN [s0 EXCEPT !.pos = @ - 1] ELSE s0
                  IN  IF Len(cache) > 0
                      THEN IF ~InIndex(s1.line, s1.pos) THEN Panic(s1)
                           ELSE ReplaceLoop(
                                  [s1 EXCEPT !.line[s1.pos + 1] = cache[Len(cache)]],
                                  SubSeq(cache, 1, Len(cache) - 1), Tail(ks))
                      ELSE ReplaceLoop(s1, cache, Tail(ks))
             ELSE IF Len(s0.line) - 1 < s0.pos
                  THEN ReplaceLoop([s0 EXCEPT !.line = Append(@, key), !.pos = @ + 1],
                                   Append(cache, NUL), Tail(ks))
                  ELSE IF ~InIndex(s0.line, s0.pos) THEN Panic(s0)
                  ELSE ReplaceLoop([s0 EXCEPT !.line[s0.pos + 1] = key, !.pos = @ + 1],
                                   Append(cache, At(s0.line, s0.pos)), Tail(ks))

\* the undo items the invocation records: the line as it is at the call
undoAppendHistory(s) == [s EXCEPT !.undoHistory = Append(@, s.line)]

\* a variant that records the undo item once the loop has ended
viReplaceCheckpointLast(s, ks) ==
    LET s1 == ReplaceLoop([s EXCEPT !.viUndoSkipAppend = TRUE], <<>>, ks)
    IN  IF ~s1.ok THEN s1
        ELSE LET s2 == exitVioppMode(enterVioppMode(undoAppendHistory(s1), ""))
             IN  exitVioppMode([s2 EXCEPT !.pos = @ - 1])

\* ks are the keys read before the escape that ends the loop
viReplace(s, ks) ==
    LET s1 == ReplaceLoop([undoAppendHistory(s) EXCEPT !.viUndoSkipAppend = TRUE],
                          <<>>, ks)
    IN  IF ~s1.ok THEN s1
        ELSE LET s2 == exitVioppMode(enterVioppMode(s1, ""))
             IN  exitVioppMode([s2 EXCEPT !.pos = @ - 1])

\* a variant that keeps the cursor where it was under the new buffer
viEditCommandLineKeepPos(s, err, new) ==
    IF err \/ Len(new) = 0 \/ new = s.line
    THEN [s EXCEPT !.viUndoSkipAppend = TRUE]
    ELSE [s EXCEPT !.line = new]

\* err, new: what StartEditorWithBuffer returns
viEditCommandLine(s, err, new) ==
    IF err \/ Len(new) = 0 \/ new = s.line
    THEN [s EXCEPT !.viUndoSkipAppend = TRUE]
    ELSE [s EXCEPT !.line = new,
                   !.pos = IF s.pos > Len(new) THEN Len(new) - 1 ELSE s.pos]

viForwardWord(s) ==
    LET s1 == [s EXCEPT !.viUndoSkipAppend = TRUE]
    IN  IF s.pos = 0 /\ Len(s.line) = 0 THEN s1
        ELSE LET s2 == JumpLoop(getViIterations(s1), "W", tokeniseLine, Iterations(s1))
             IN  IF s2.local = viopp /\ s2.activeRegion
                 THEN [s2 EXCEPT !.pos = @ - 1] ELSE s2

viForwardBlankWord(s) ==
    IF s.pos = 0 /\ Len(s.line) = 0 THEN s
    ELSE LET s1 == [s EXCEPT !.viUndoSkipAppend = TRUE]
         IN  JumpLoop(getViIterations(s1), "W", tokeniseSplitSpaces, Iterations(s1))

\* for i := 1; i <= vii; i++ { rl.deletex() }   (back: rl.deleteX())
RECURSIVE DeleteLoop(_, _, _)
DeleteLoop(s, back, vii) ==
    IF vii <= 0 THEN s
    ELSE DeleteLoop(IF back THEN deleteX(s) ELSE deletex(s), back, vii - 1)

viDeleteChar(s) ==
    LET vii == Iterations(s)
    IN  DeleteLoop(saveToRegister(getViIterations(s), vii), FALSE, vii)

viBackwardDeleteChar(s) ==
    LET vii == Iterations(s)
        s1  == DeleteLoop(saveToRegister(getViIterations(s), vii), TRUE, vii)
    IN  IF s1.pos = Len(s1.line) /\ Len(s1.line) > 0
        THEN [s1 EXCEPT !.pos = @ - 1] ELSE s1

\* after an operator was applied to a selection: visual mode ends
LeaveVisual(s) == IF s.local = visual THEN viCommandMode(s) ELSE s

\* an operator with no selection yet: wait for its argument
\* a variant that leaves the mark where it was
DeferOperatorKeepMark(s) == [s EXCEPT !.activeRegion = TRUE]

DeferOperator(s) == [s EXCEPT !.mark = s.pos, !.activeRegion = TRUE]

\* a variant that yanks the region and keeps it selected
viYankKeepSelection(s) ==
    IF s.activeRegion \/ s.local = visual
    THEN LeaveVisual(yankSelection(s))
    ELSE DeferOperator(enterVioppMode(s, "vi-yank"))

viYank(s) ==
    IF s.activeRegion \/ s.local = visual
    THEN LeaveVisual(resetSelection(yankSelection(s)))
    ELSE DeferOperator(enterVioppMode(s, "vi-yank"))

viYankWholeLine(s) ==
    [saveBufToRegister(s, s.line) EXCEPT !.viUndoSkipAppend = TRUE]

viEndOfLine(s) == [s EXCEPT !.pos = Len(s.line), !.viUndoSkipAppend = TRUE]

\* a variant that stops on the closing bracket it found
viMatchBracketStopAtClosing(s) ==
    LET s1 == [s EXCEPT !.viUndoSkipAppend = TRUE]
    IN  IF ~InIndex(s.line, s.pos) THEN Panic(s1)
        ELSE IF ~isBracket(At(s.line, s.pos))
        THEN LET J == {i \in (s.pos + 1)..(Len(s.line) - 1) :
                          At(s.line, i) \in {"}", ")", "]"}}
             IN  IF J = {} THEN s1
                 ELSE moveCursorByAdjust(s1, MinOf(J) - s.pos)
        ELSE moveCursorByAdjust(s1, viJumpBracket(s1))

viMatchBracket(s) ==
    LET s1 == [s EXCEPT !.viUndoSkipAppend = TRUE]
    IN  IF ~InIndex(s.line, s.pos) THEN Panic(s1)
        ELSE IF ~isBracket(At(s.line, s.pos))
        THEN LET J == {i \in (s.pos + 1)..(Len(s.line) - 1) :
                          At(s.line, i) \in {"}", ")", "]"}}
             IN  IF J = {} THEN s1
                 ELSE LET s2 == moveCursorByAdjust(s1, MinOf(J) - s.pos)
                      IN  moveCursorByAdjust(s2, viJumpBracket(s2))
        ELSE moveCursorByAdjust(s1, viJumpBracket(s1))

\* key: what readInput delivers
viSetBuffer(s, key) ==
    LET s1 == IF s.registers.onRegister
              THEN [s EXCEPT !.registers = resetRegister(@)] ELSE s
    IN  IF key = charEscape THEN s1
        ELSE IF key \in validRegisterKeys
        THEN [s1 EXCEPT !.registers = setActiveRegister(@, key)]
        ELSE s1

\* a variant that stays in operator-pending mode once the key was read
FindCharStayPending(s, key, forward, skip) ==
    LET s0 == enterVioppMode(s, "")
    IN  IF key = charEscape THEN [exitVioppMode(s0) EXCEPT !.esc = TRUE]
        ELSE findAndMoveCursor(getViIterations(s0), key, Iterations(s0),
                               forward, skip)

\* the four find-char widgets differ in the direction and the skip flag only
FindChar(s, key, forward, skip) ==
    LET s0 == enterVioppMode(s, "")
    IN  IF key = charEscape THEN [exitVioppMode(s0) EXCEPT !.esc = TRUE]
        ELSE LET s1 == exitVioppMode(s0)
             IN  findAndMoveCursor(getViIterations(s1), key, Iterations(s1),
                                   forward, skip)

viFindNextChar(s, key) == FindChar(s, key, TRUE, FALSE)
\* a variant that searches without skip
viFindNextCharSkipLands(s, key) == FindChar(s, key, TRUE, FALSE)
viFindNextCharSkip(s, key) == FindChar(s, key, TRUE, TRUE)
viFindPrevChar(s, key) == FindChar(s, key, FALSE, FALSE)
viFindPrevCharSkip(s, key) == FindChar(s, key, FALSE, TRUE)

viDelete(s) ==
    IF s.activeRegion \/ s.local = visual
    THEN LeaveVisual(resetSelection(deleteSelection(s)))
    ELSE DeferOperator(enterVioppMode(s, "vi-delete"))

\* a variant that always takes 0 for the motion
viDigitOrBeginningOfLineMotion(s) == beginningOfLine(s)

viDigitOrBeginningOfLine(s) ==
    IF Len(s.viIteration) > 0 THEN addIteration(s, "0")
    ELSE beginningOfLine(s)

InRegionMode(s) == s.local = visual \/ s.local = viopp

viSelectABlankWord(s) ==
    LET s1 == viBackwardBlankWord([s EXCEPT !.pos = @ + 1])
        s2 == IF InRegionMode(s1) THEN [s1 EXCEPT !.mark = s1.pos] ELSE s1
        s3 == viForwardBlankWord(s2)
    IN  IF InRegionMode(s3)
        THEN [s3 EXCEPT !.pos = @ - 1, !.activeRegion = TRUE] ELSE s3

viSelectAShellWord(s) ==
    LET s1 == findAndMoveCursor(s, "'", 1, FALSE, FALSE)
        s2 == findAndMoveCursor(s1, "\"", 1, FALSE, FALSE)
    IN  IF s.pos = s1.pos /\ s2.pos = s.pos THEN s2
        ELSE IF ~InIndex(s2.line, s2.pos) THEN Panic(s2)
        ELSE LET s3 == [s2 EXCEPT !.mark = s2.pos]
                 c  == At(s3.line, s3.pos)
                 s4 == IF c = "\"" THEN findAndMoveCursor(s3, "\"", 1, TRUE, FALSE)
                       ELSE IF c = "'" THEN findAndMoveCursor(s3, "'", 1, TRUE, FALSE)
                       ELSE s3
             IN  [s4 EXCEPT !.activeRegion = TRUE]

viSelectAWord(s) ==
    LET s1 == viBackwardWord([s EXCEPT !.pos = @ + 1])
        s2 == IF InRegionMode(s1) THEN [s1 EXCEPT !.mark = s1.pos] ELSE s1
        s3 == viForwardWord(s2)
    IN  IF InRegionMode(s3)
        THEN [s3 EXCEPT !.pos = @ - 1, !.activeRegion = TRUE] ELSE s3

viSelectInBlankWord(s) ==
    LET s1 == viBackwardBlankWord([s EXCEPT !.pos = @ + 1])
        s2 == IF InRegionMode(s1) THEN [s1 EXCEPT !.mark = s1.pos] ELSE s1
        s3 == viForwardBlankWordEnd(s2)
    IN  IF InRegionMode(s3) THEN [s3 EXCEPT !.activeRegion = TRUE] ELSE s3

viSelectInShellWord(s) ==
    LET s1 == findAndMoveCursor(s, "'", 1, FALSE, TRUE)
        s2 == findAndMoveCursor(s1, "\"", 1, FALSE, TRUE)
    IN  IF s.pos = s1.pos /\ s2.pos = s.pos THEN s2
        ELSE IF ~InIndex(s2.line, s2.pos - 1) THEN Panic(s2)
        ELSE LET s3 == [s2 EXCEPT !.mark = s2.pos]
                 c  == At(s3.line, s3.pos - 1)
                 s4 == IF c = "\"" THEN findAndMoveCursor(s3, "\"", 1, TRUE, TRUE)
                       ELSE IF c = "'" THEN findAndMoveCursor(s3, "'", 1, TRUE, TRUE)
                       ELSE s3
             IN  [s4 EXCEPT !.activeRegion = TRUE]

viSelectInWord(s) ==
    LET s1 == viBackwardWord([s EXCEPT !.pos = @ + 1])
        s2 == IF InRegionMode(s1) THEN [s1 EXCEPT !.mark = s1.pos] ELSE s1
        s3 == viForwardWordEnd(s2)
    IN  IF InRegionMode(s3) THEN [s3 EXCEPT !.activeRegion = TRUE] ELSE s3

\* a variant that reads the count like every other widget
viGotoColumnDefaultOne(s) == [getViIterations(s) EXCEPT !.pos = Iterations(s)]

viGotoColumn(s) ==
    LET column == IF s.viIteration = <<>> THEN 0 ELSE Iterations(s)
    IN  [getViIterations(s) EXCEPT !.pos = column]

\* the rune at the cursor with its case swapped
SwapAt(s) == [s EXCEPT !.line[s.pos + 1] = SwapRune(At(s.line, s.pos))]

\* for range rl.line[bpos:epos] { swap the rune at rl.pos; rl.pos++ }
RECURSIVE SwapLoop(_, _)
SwapLoop(s, n) ==
    IF n <= 0 THEN s
    ELSE IF ~InIndex(s.line, s.pos) THEN Panic(s)
    ELSE SwapLoop([SwapAt(s) EXCEPT !.pos = @ + 1], n - 1)

\* the end of the visual branch: the cursor back where it was, command mode
SwapCaseDone(s, posInit) ==
    IF ~s.ok THEN s ELSE viCommandMode([s EXCEPT !.pos = posInit])

viSwapCaseVisual(s, sel) ==
    IF ~InSlice(s.line, sel.bpos, sel.epos) THEN Panic(s)
    ELSE SwapCaseDone(SwapLoop([resetSelection(s) EXCEPT !.pos = sel.bpos],
                               sel.epos - sel.bpos), s.pos)

viSwapCase(s) ==
    IF ~s.ok THEN s
    ELSE IF s.local = visual THEN viSwapCaseVisual(s, getSelection(s))
    ELSE IF ~InIndex(s.line, s.pos) THEN Panic(s)
    ELSE SwapAt(s)

\* for range rl.line[bpos:epos] { rl.viSwapCase(); rl.pos++ }
RECURSIVE OperSwapLoop(_, _)
OperSwapNext(s) == IF ~s.ok THEN s ELSE [s EXCEPT !.pos = @ + 1]

OperSwapLoop(s, n) ==
    IF n <= 0 \/ ~s.ok THEN s
    ELSE OperSwapLoop(OperSwapNext(viSwapCase(s)), n - 1)

\* after the loop: the cursor to cpos, and out of visual mode with the
\* cursor back where it was
OperSwapDone(s, cpos, posInit) ==
    IF ~s.ok THEN s
    ELSE IF s.local = visual THEN viCommandMode([s EXCEPT !.pos = posInit])
    ELSE [s EXCEPT !.pos = cpos]

OperSwapApply(s, sel) ==
    IF ~InSlice(s.line, sel.bpos, sel.epos) THEN Panic(s)
    ELSE OperSwapDone(OperSwapLoop([resetSelection(s) EXCEPT !.pos = sel.bpos],
                                   sel.epos - sel.bpos), sel.cpos, s.pos)

viOperSwapCase(s) ==
    IF s.activeRegion \/ s.local = visual
    THEN OperSwapApply(s, getSelection(s))
    ELSE DeferOperator(enterVioppMode(s, "vi-oper-swap-case"))

viFirstNonBlank(s) ==
    LET J == {i \in 0..(Len(s.line) - 1) : At(s.line, i) = " "}
    IN  IF J = {} THEN s ELSE [s EXCEPT !.pos = MinOf(J)]

\* a variant that puts the delimiter in front of the selection only
viAddSurroundOpenOnly(s, key) ==
    LET s0 == enterVioppMode(s, "")
    IN  IF key = charEscape THEN [exitVioppMode(s0) EXCEPT !.esc = TRUE]
        ELSE LET s1  == exitVioppMode(s0)
                 sel == getSelection(s1)
             IN  IF ~InSlice(s1.line, sel.bpos, sel.epos) THEN Panic(s1)
                 ELSE [resetSelection(s1) EXCEPT !.line =
                          Slice(s1.line, 0, sel.bpos) \o <<key>>
                          \o Slice(s1.line, sel.bpos, Len(s1.line))]

\* a variant whose escaped argument read returns without leaving
\* operator-pending mode
viAddSurroundStayPending(s, key) ==
    LET s0 == enterVioppMode(s, "")
    IN  IF key = charEscape THEN [s0 EXCEPT !.esc = TRUE]
        ELSE LET s1  == exitVioppMode(s0)
                 sel == getSelection(s1)
             IN  IF ~InSlice(s1.line, sel.bpos, sel.epos) THEN Panic(s1)
                 ELSE [resetSelection(s1) EXCEPT !.line =
                          Slice(s1.line, 0, sel.bpos) \o <<key>>
                          \o Slice(s1.line, sel.bpos, sel.epos) \o <<key>>
                          \o Slice(s1.line, sel.epos, Len(s1.line))]

viAddSurround(s, key) ==
    LET s0 == enterVioppMode(s, "")
    IN  IF key = charEscape THEN [exitVioppMode(s0) EXCEPT !.esc = TRUE]
        ELSE LET s1  == exitVioppMode(s0)
                 sel == getSelection(s1)
             IN  IF ~InSlice(s1.line, sel.bpos, sel.epos) THEN Panic(s1)
                 ELSE [resetSelection(s1) EXCEPT !.line =
                          Slice(s1.line, 0, sel.bpos) \o <<key>>
                          \o Slice(s1.line, sel.bpos, sel.epos) \o <<key>>
                          \o Slice(s1.line, sel.epos, Len(s1.line))]

viSubstitute(s) ==
    IF s.local = visual
    THEN viInsertMode(resetSelection(deleteSelection(s)))
    ELSE LET vii == Iterations(s)
         IN  viInsertMode(DeleteLoop(saveToRegister(getViIterations(s), vii), FALSE, vii))

\* the three widgets whose bodies are empty
viChange(s) == s
viChangeSurround(s) == s
viSelectSurround(s) == s

\* digit-argument: a count digit typed before a command
digitArgument(s, d) == addIteration(s, d)

----------------------------------------------------------------------------
(* The dispatcher: one key resolves to one widget, which runs to          *)
(* completion; a pending operator is applied after the motion or text      *)
(* object that follows it, and operator-pending mode ends with that key.   *)

OperatorWidgets == {"vi-delete", "vi-yank", "vi-oper-swap-case"}

MotionWidgets ==
    { "vi-backward-char", "vi-forward-char", "vi-forward-word",
      "vi-forward-blank-word", "vi-forward-word-end",
      "vi-forward-blank-word-end", "vi-backward-word",
      "vi-backward-blank-word", "vi-end-of-line", "vi-find-next-char",
      "vi-find-next-char-skip", "vi-find-prev-char",
      "vi-find-prev-char-skip", "vi-match-bracket",
      "vi-digit-or-beginning-of-line", "vi-goto-column",
      "vi-first-non-blank" }

TextObjectWidgets ==
    { "select-a-blank-word", "select-a-shell-word", "select-a-word",
      "select-in-blank-word", "select-in-shell-word", "select-in-word" }

\* the session as the widgets see it
Session ==
    [line |-> line, pos |-> pos, mark |-> mark, main |-> main,
     local |-> local, activeRegion |-> activeRegion,
     visualLine |-> visualLine, viIteration |-> viIteration,
     viUndoSkipAppend |-> FALSE, registers |-> registers,
     pendingOp |-> pendingOp, savedLocal |-> local, esc |-> FALSE,
     undoHistory |-> <<>>, ok |-> TRUE]

\* the pending operator's widget, run again once its argument is resolved
RunPending(op, s) ==
    CASE op = "vi-delete" -> viDelete(s)
      [] op = "vi-yank" -> viYank(s)
      [] op = "vi-oper-swap-case" -> viOperSwapCase(s)
      [] OTHER -> s

ExitPending(s) ==
    [s EXCEPT !.local = IF @ = viopp THEN "" ELSE @, !.pendingOp = ""]

\* a count digit does not consume the pending operator's argument
IsCountDigit(name) ==
    \/ name = "digit-argument"
    \/ name = "vi-digit-or-beginning-of-line" /\ viIteration # <<>>

WasPending == local = viopp /\ pendingOp # ""

\* what the composite command does with the key whose widget left s1
Chained(name, s1) ==
    /\ WasPending
    /\ ~IsCountDigit(name)
    /\ name \in MotionWidgets \cup TextObjectWidgets
    /\ s1.ok /\ ~s1.esc

Cancelled(name, s1) ==
    /\ WasPending
    /\ ~IsCountDigit(name)
    /\ name \notin OperatorWidgets
    /\ ~Chained(name, s1)

Dispatch(name, s1) ==
    IF ~s1.ok \/ ~WasPending \/ IsCountDigit(name) THEN s1
    ELSE IF name \in OperatorWidgets
    THEN (IF s1.activeRegion THEN s1 ELSE ExitPending(s1))
    ELSE IF Chained(name, s1) THEN
        LET s2 == RunPending(pendingOp, s1)
        IN  IF s2.ok THEN ExitPending(s2) ELSE s2
    ELSE IF s1.local = viopp THEN ExitPending(resetSelection(s1))
    ELSE ExitPending(s1)

----------------------------------------------------------------------------
(* What the last key did, kept for the properties: the widget, the        *)
(* operator it applied (if any), the session before the composite command  *)
(* (pre) and at the moment the operator was invoked (at).                  *)

Snap(s) ==
    [line |-> s.line, pos |-> s.pos, mark |-> s.mark, main |-> s.main,
     local |-> s.local, activeRegion |-> s.activeRegion,
     visualLine |-> s.visualLine, registers |-> s.registers]

NoSnap ==
    [line |-> <<>>, pos |-> 0, mark |-> -1, main |-> "", local |-> "",
     activeRegion |-> FALSE, visualLine |-> FALSE, registers |-> InitRegisters]

NoEv == [widget |-> "", kind |-> "none", op |-> "", pending |-> "",
         esc |-> FALSE, pre |-> NoSnap, at |-> NoSnap]

Event(name, s1) ==
    LET s0 == Session
        op  == IF name \in OperatorWidgets THEN name
               ELSE IF Chained(name, s1) THEN pendingOp ELSE ""
        applied == op # "" /\ (IF name \in OperatorWidgets
                               THEN s0.activeRegion \/ s0.local = visual
                               ELSE TRUE)
        kind == IF WasPending /\ IsCountDigit(name) THEN "digit"
                ELSE IF applied THEN "apply"
                ELSE IF op # "" THEN "defer"
                ELSE IF Cancelled(name, s1) THEN "cancel"
                ELSE "plain"
    IN  [widget |-> name, kind |-> kind, op |-> op,
         pending |-> IF WasPending THEN pendingOp ELSE "",
         esc |-> s1.esc,
         pre |-> IF kind = "defer" THEN Snap(s0)
                 ELSE IF WasPending THEN ev.pre
                 ELSE IF op # "" THEN Snap(s0) ELSE NoSnap,
         at  |-> IF op = "" THEN NoSnap
                 ELSE IF name \in OperatorWidgets THEN Snap(s0) ELSE Snap(s1)]

\* the session the key leaves, or the abort of the program
Commit(name, s1, s2) ==
    /\ Len(s2.line) <= MaxLen
    /\ Len(s2.viIteration) <= MaxDigits
    /\ nkeys' = nkeys + 1
    /\ UNCHANGED findVars
    /\ ev' = IF s2.ok THEN Event(name, s1)
             ELSE [Event(name, s1) EXCEPT !.kind = "abort"]
    /\ IF s2.ok
       THEN /\ line' = s2.line
            /\ pos' = s2.pos
            /\ mark' = s2.mark
            /\ main' = s2.main
            /\ local' = s2.local
            /\ activeRegion' = s2.activeRegion
            /\ visualLine' = s2.visualLine
            /\ viIteration' = s2.viIteration
            /\ viUndoSkipAppend' = s2.viUndoSkipAppend
            /\ registers' = s2.registers
            /\ pendingOp' = s2.pendingOp
            /\ aborted' = FALSE
       ELSE /\ aborted' = TRUE
            /\ UNCHANGED <<line, pos, mark, main, local, activeRegion,
                           visualLine, viIteration, viUndoSkipAppend,
                           registers, pendingOp>>

\* one key: the widget's result s1 goes through the dispatcher
Step(name, s1) ==
    /\ ~aborted
    /\ nkeys < MaxKeys
    /\ Commit(name, s1, Dispatch(name, s1))

----------------------------------------------------------------------------
(* Initial states: a session with some text typed, in insert mode, just   *)
(* escaped to command mode, or in visual mode with a selection made.       *)

Init ==
    /\ line \in InitLines
    /\ main \in {viins, vicmd}
    /\ pos \in 0..Len(line)
    /\ (main = vicmd /\ Len(line) > 0 => pos <= Len(line) - 1)
    /\ \/ mark = -1 /\ local = "" /\ activeRegion = FALSE
       \/ /\ main = vicmd /\ Len(line) > 0
          /\ mark \in 0..(Len(line) - 1)
          /\ local = visual /\ activeRegion = TRUE
    /\ visualLine = FALSE
    /\ viIteration = <<>>
    /\ viUndoSkipAppend = FALSE
    /\ registers = InitRegisters
    /\ pendingOp = ""
    /\ aborted = FALSE
    /\ nkeys = 0
    /\ ev = NoEv
    /\ tfLine = <<>> /\ hintText = <<>> /\ regexSearch = NoRegex
    /\ regexpMode = HistoryFind /\ modeTabFind = FALSE
    /\ modeAutoFind = FALSE /\ nCompletion = 0 /\ nfind = 0

----------------------------------------------------------------------------
(* The next-state relation. *)

KeyOrEscape == ArgKeys \cup {charEscape}
ReplaceInputs ==
    UNION { [1..n -> ReplaceKeys] : n \in 0..MaxReplaceKeys }

\* one disjunct per widget of the table; a widget that reads keys takes
\* them as inputs
Next ==
    \/ Step("vi-insert-mode", viInsertMode(Session))
    \/ Step("vi-cmd-mode", viCommandMode(Session))
    \/ Step("visual-mode", viVisualMode(Session))
    \/ Step("visual-line-mode", viVisualLineMode(Session))
    \/ Step("vi-insert-bol", viInsertBol(Session))
    \/ Step("vi-backward-char", viBackwardChar(Session))
    \/ Step("vi-forward-char", viForwardChar(Session))
    \/ Step("vi-delete-char", viDeleteChar(Session))
    \/ Step("vi-backward-delete-char", viBackwardDeleteChar(Session))
    \/ Step("vi-forward-word", viForwardWord(Session))
    \/ Step("vi-forward-blank-word", viForwardBlankWord(Session))
    \/ Step("vi-forward-word-end", viForwardWordEnd(Session))
    \/ Step("vi-forward-blank-word-end", viForwardBlankWordEnd(Session))
    \/ Step("vi-backward-word", viBackwardWord(Session))
    \/ Step("vi-backward-blank-word", viBackwardBlankWord(Session))
    \/ Step("vi-kill-eol", viKillEol(Session))
    \/ \E spare \in BOOLEAN, stale \in {NUL, "a"} :
          Step("vi-change-eol", viChangeEol(Session, spare, stale))
    \/ \E err \in BOOLEAN, new \in EditorLines :
          Step("vi-edit-command-line", viEditCommandLine(Session, err, new))
    \/ Step("vi-add-eol", viAddEol(Session))
    \/ Step("vi-add-next", viAddNext(Session))
    \/ Step("vi-put-after", viPutAfter(Session))
    \/ Step("vi-put-before", viPutBefore(Session))
    \/ Step("vi-end-of-line", viEndOfLine(Session))
    \/ \E key \in {charEscape, "r", "!"} :
          Step("vi-set-buffer", viSetBuffer(Session, key))
    \/ Step("vi-yank", viYank(Session))
    \/ Step("vi-yank-whole-line", viYankWholeLine(Session))
    \/ \E key \in KeyOrEscape :
          Step("vi-find-next-char", viFindNextChar(Session, key))
    \/ \E key \in KeyOrEscape :
          Step("vi-find-next-char-skip", viFindNextCharSkip(Session, key))
    \/ \E key \in KeyOrEscape :
          Step("vi-find-prev-char", viFindPrevChar(Session, key))
    \/ \E key \in KeyOrEscape :
          Step("vi-find-prev-char-skip", viFindPrevCharSkip(Session, key))
    \/ Step("vi-delete", viDelete(Session))
    \/ \E key \in KeyOrEscape :
          Step("vi-replace-chars", viReplaceChars(Session, key))
    \/ \E ks \in ReplaceInputs : Step("vi-replace", viReplace(Session, ks))
    \/ Step("vi-match-bracket", viMatchBracket(Session))
    \/ Step("select-a-blank-word", viSelectABlankWord(Session))
    \/ Step("select-a-shell-word", viSelectAShellWord(Session))
    \/ Step("select-a-word", viSelectAWord(Session))
    \/ Step("select-in-blank-word", viSelectInBlankWord(Session))
    \/ Step("select-in-shell-word", viSelectInShellWord(Session))
    \/ Step("select-in-word", viSelectInWord(Session))
    \/ Step("vi-digit-or-beginning-of-line",
            viDigitOrBeginningOfLine(Session))
    \/ Step("vi-goto-column", viGotoColumn(Session))
    \/ Step("vi-swap-case", viSwapCase(Session))
    \/ Step("vi-oper-swap-case", viOperSwapCase(Session))
    \/ Step("vi-first-non-blank", viFirstNonBlank(Session))
    \/ Step("vi-substitute", viSubstitute(Session))
    \/ Step("vi-change", viChange(Session))
    \/ \E key \in KeyOrEscape :
          Step("vi-add-surround", viAddSurround(Session, key))
    \/ Step("vi-change-surround", viChangeSurround(Session))
    \/ Step("vi-select-surround", viSelectSurround(Session))
    \/ \E d \in Digits : Step("digit-argument", digitArgument(Session, d))

Spec == Init /\ [][Next]_vars

----------------------------------------------------------------------------
(* The completion search line. *)

\* regexp.Compile succeeds on a pattern whose groups are closed
RECURSIVE GroupsClosed(_, _)
GroupsClosed(p, depth) ==
    IF depth < 0 THEN FALSE
    ELSE IF p = <<>> THEN depth = 0
    ELSE GroupsClosed(Tail(p), depth + (IF Head(p) = "(" THEN 1
                                        ELSE IF Head(p) = ")" THEN -1 ELSE 0))
FindState ==
    [tfLine |-> tfLine, hintText |-> hintText, regexSearch |-> regexSearch,
     regexpMode |-> regexpMode, modeTabFind |-> modeTabFind,
     modeAutoFind |-> modeAutoFind, nCompletion |-> nCompletion]

updateTabFind(f, r) ==
    LET tf   == f.tfLine \o r
        hint == IF f.regexpMode = HistoryFind
                THEN <<"History search: ">> \o tf
                ELSE <<"Completion search: ">> \o tf
        re   == IF GroupsClosed(tf, 0)
                THEN [compiled |-> TRUE, pattern |-> tf] ELSE NoRegex
        f1   == [f EXCEPT !.tfLine = tf, !.hintText = hint, !.regexSearch = re]
    IN  IF ~re.compiled
        THEN [f1 EXCEPT !.hintText = <<"Failed to match search regexp">>]
        ELSE [f1 EXCEPT !.nCompletion = @ + 1]

backspaceTabFind(f) ==
    updateTabFind(IF Len(f.tfLine) > 0
                  THEN [f EXCEPT !.tfLine = SubSeq(@, 1, Len(@) - 1)]
                  ELSE f, <<>>)

\* the completions are computed again at the end
resetTabFind(f) ==
    [f EXCEPT !.modeTabFind = FALSE, !.tfLine = <<>>,
              !.hintText = IF f.modeAutoFind THEN <<>>
                           ELSE <<"Cancelled regexp suggestion find.">>,
              !.modeAutoFind = FALSE, !.nCompletion = @ + 1]

\* one key of the search: the state the call leaves
StepFind(f) ==
    /\ nfind < MaxFindKeys
    /\ nfind' = nfind + 1
    /\ tfLine' = f.tfLine /\ hintText' = f.hintText
    /\ regexSearch' = f.regexSearch /\ regexpMode' = f.regexpMode
    /\ modeTabFind' = f.modeTabFind /\ modeAutoFind' = f.modeAutoFind
    /\ nCompletion' = f.nCompletion
    /\ UNCHANGED <<line, pos, mark, main, local, activeRegion, visualLine,
                   viIteration, viUndoSkipAppend, registers, pendingOp,
                   aborted, nkeys, ev>>

\* a search that has just been started, over an idle line editor
InitTabFind ==
    /\ line = <<>> /\ pos = 0 /\ mark = -1 /\ main = viins /\ local = ""
    /\ activeRegion = FALSE /\ visualLine = FALSE /\ viIteration = <<>>
    /\ viUndoSkipAppend = FALSE /\ registers = InitRegisters
    /\ pendingOp = "" /\ aborted = FALSE /\ nkeys = 0 /\ ev = NoEv
    /\ tfLine = <<>> /\ hintText = <<>> /\ regexSearch = NoRegex
    /\ regexpMode \in {HistoryFind, CompletionFind}
    /\ modeTabFind = TRUE /\ modeAutoFind \in BOOLEAN
    /\ nCompletion = 0 /\ nfind = 0

NextTabFind ==
    \/ \E c \in FindRunes : StepFind(updateTabFind(FindState, <<c>>))
    \/ StepFind(backspaceTabFind(FindState))
    \/ StepFind(resetTabFind(FindState))

SpecTabFind == InitTabFind /\ [][NextTabFind]_vars

----------------------------------------------------------------------------
(* Vocabulary of the properties. *)

\* the range an operator invoked at snapshot a works on: from the smaller
\* of mark and cursor up to and including the larger (the whole line in
\* visual-line mode), as far as it lies in the buffer
RangeB(a) ==
    IF a.visualLine THEN 0 ELSE Max2(0, Min2(Min2(a.mark, a.pos), Len(a.line)))
RangeE(a) ==
    IF a.visualLine THEN Len(a.line)
    ELSE Max2(RangeB(a), Min2(Max2(a.mark, a.pos) + 1, Len(a.line)))

\* the register a save made at snapshot a goes to, as it is now
SavedTo(a) ==
    IF a.registers.onRegister THEN registers.named[a.registers.current]
    ELSE registers.unnamed

\* l with the case of every rune in [b, e) swapped once
SwapRange(l, b, e) ==
    [i \in 1..Len(l) |-> IF b <= i - 1 /\ i - 1 < e THEN SwapRune(l[i]) ELSE l[i]]

\* the buffer and registers are what one application of op at a leaves
AppliedOnce(op, a) ==
    CASE op = "vi-delete" ->
           /\ line = Slice(a.line, 0, RangeB(a)) \o Slice(a.line, RangeE(a), Len(a.line))
           /\ SavedTo(a).buf = Slice(a.line, RangeB(a), RangeE(a))
      [] op = "vi-yank" ->
           /\ line = a.line
           /\ SavedTo(a).buf = Slice(a.line, RangeB(a), RangeE(a))
      [] op = "vi-oper-swap-case" ->
           /\ line = SwapRange(a.line, RangeB(a), RangeE(a))
           /\ registers = a.registers
      [] OTHER -> FALSE

\* the last key invoked operator ev.op on an active region
OnRegion == ev.op \in OperatorWidgets /\ (ev.at.activeRegion \/ ev.at.local = visual)

\* the widgets that read one argument key
ArgumentWidgets ==
    { "vi-find-next-char", "vi-find-next-char-skip", "vi-find-prev-char",
      "vi-find-prev-char-skip", "vi-replace-chars", "vi-add-surround" }

\* the last key was escape (or an escaped argument read) cancelling a
\* pending operator
EscapedPending ==
    ev.kind = "cancel" /\ (ev.widget = "vi-cmd-mode" \/ ev.esc)

\* the session as a snapshot, for properties that compare a key's result
\* with the state it was pressed in
Now == Snap(Session)

\* the register a save made in the current state goes to, after the key
SavedNext ==
    IF registers.onRegister THEN registers'.named[registers.current]
    ELSE registers'.unnamed

\* the runes of the range at snapshot a, and the buffer without them
RangeText(a) == Slice(a.line, RangeB(a), RangeE(a))
RangeCut(a) ==
    Slice(a.line, 0, RangeB(a)) \o Slice(a.line, RangeE(a), Len(a.line))

\* mark and cursor of snapshot a select runes of the buffer
SelectionInBuffer(a) ==
    \/ a.visualLine
    \/ /\ 0 <= a.mark /\ a.mark < Len(a.line)
       /\ 0 <= a.pos /\ a.pos < Len(a.line)

\* where a delete of the range at a leaves the cursor: at the begin of the
\* range, or on the last rune when that is past the end of what is left
CutCursor(a) ==
    IF RangeB(a) >= Len(RangeCut(a)) /\ Len(RangeCut(a)) > 0
    THEN Len(RangeCut(a)) - 1 ELSE RangeB(a)

----------------------------------------------------------------------------
(* Properties. *)

\* C1: from command mode with no active region, vi-delete followed by
\* escape leaves the buffer, the cursor, the main and local mode and every
\* register as they were immediately before vi-delete.
C1_DeleteThenEscapeRestores ==
    ( /\ ev.widget = "vi-cmd-mode"
      /\ ev.pending = "vi-delete"
      /\ ev.pre.main = vicmd
      /\ ~ev.pre.activeRegion /\ ev.pre.local = "" )
    => /\ line = ev.pre.line
       /\ pos = ev.pre.pos
       /\ main = ev.pre.main
       /\ local = ev.pre.local
       /\ registers = ev.pre.registers

C1_Witness ==
    /\ ev.widget = "vi-cmd-mode" /\ ev.pending = "vi-delete"
    /\ ev.pre.main = vicmd /\ ~ev.pre.activeRegion /\ ev.pre.local = ""
    /\ Len(line) = 3 /\ pos = 2

\* C2: vi-delete, vi-yank or vi-oper-swap-case invoked on an active region
\* applies its effect to the range between mark and cursor, leaves mark
\* unset and activeRegion false, and from visual mode ends in command mode
\* with no local mode.
C2_DirectApplication ==
    OnRegion
    => /\ ~aborted
       /\ AppliedOnce(ev.op, ev.at)
       /\ mark = -1 /\ ~activeRegion
       /\ (ev.at.local = visual => main = vicmd /\ local = "")

\* C3: vi-delete, vi-yank or vi-oper-swap-case invoked with no active
\* region and outside visual mode sets mark = pos and activeRegion, enters
\* operator-pending mode with its own name pending, and changes neither
\* the buffer, the cursor nor any register.
C3_DeferredApplication ==
    ev.kind = "defer"
    => /\ mark = pos /\ activeRegion
       /\ local = viopp /\ pendingOp = ev.widget
       /\ line = ev.pre.line /\ pos = ev.pre.pos
       /\ registers = ev.pre.registers

C3_Witness ==
    /\ ev.kind = "defer" /\ ev.widget = "vi-oper-swap-case"
    /\ pendingOp = "vi-oper-swap-case" /\ pos = 1 /\ mark = 1

\* C4: in every composed command the operator's effect on the buffer and
\* the registers is applied exactly once, never zero times and never
\* twice.
C4_AppliedExactlyOnce ==
    (ev.kind = "apply" /\ ev.op \in OperatorWidgets)
    => AppliedOnce(ev.op, ev.at)

C6_EscapedArgument ==
    [][ (ev'.esc /\ ev'.widget \in ArgumentWidgets)
        => /\ line' = line
           /\ local' # viopp
           /\ local' = IF local = viopp THEN ev.pre.local ELSE local ]_vars

C6_Witness ==
    /\ ev.esc /\ ev.widget = "vi-add-surround"
    /\ local = visual /\ line # <<>>

\* C7: after any sequence of widget invocations the cursor satisfies
\* 0 <= pos <= len(Buffer).
C7_CursorInBuffer == 0 <= pos /\ pos <= Len(line)

\* C8: in command mode with a non-empty buffer every motion widget leaves
\* the cursor at pos <= len(Buffer) - 1.
C8_MotionStaysOnRune ==
    ( /\ ev.widget \in MotionWidgets /\ ev.kind = "plain"
      /\ main = vicmd /\ line # <<>> )
    => pos <= Len(line) - 1

\* C9: no widget invocation reads, writes or slices the buffer outside
\* its bounds; every widget returns and leaves a continuable state.
C9_NoAbort == ~aborted

\* C10: on a non-empty buffer, vi-delete invoked while vi-delete is
\* pending empties the buffer and leaves the pre-delete content in the
\* default register, tagged line-wise.
C10_DeleteWholeLine ==
    ( /\ ev.widget = "vi-delete" /\ ev.pending = "vi-delete"
      /\ ev.pre.line # <<>> )
    => /\ ~aborted
       /\ line = <<>>
       /\ registers.unnamed = [buf |-> ev.pre.line, lineWise |-> TRUE]

\* C11: the delete operator applied to a range [b,e) removes exactly the
\* runes of [b,e), leaves the cursor at b (or at len-1 when b is past the
\* end of the shortened non-empty buffer), and the register receiving the
\* delete holds exactly the removed runes.
C11_DeleteRange ==
    (ev.kind = "apply" /\ ev.op = "vi-delete")
    => /\ line = RangeCut(ev.at)
       /\ pos = CutCursor(ev.at)
       /\ SavedTo(ev.at).buf = RangeText(ev.at)

\* C12: vi-yank over a range leaves the buffer identical and the armed (or
\* default) register holding the runes of the range tagged character-wise;
\* vi-yank-whole-line leaves buffer and cursor identical and the register
\* holding the full line tagged line-wise.
C12_YankKeepsBuffer ==
    [][ /\ (ev'.kind = "apply" /\ ev'.op = "vi-yank")
           => /\ line' = ev'.at.line
              /\ (IF ev'.at.registers.onRegister
                  THEN registers'.named[ev'.at.registers.current]
                  ELSE registers'.unnamed)
                 = [buf |-> RangeText(ev'.at), lineWise |-> FALSE]
        /\ (ev'.widget = "vi-yank-whole-line" /\ ~aborted')
           => /\ line' = line /\ pos' = pos
              /\ SavedNext = [buf |-> line, lineWise |-> TRUE] ]_vars

\* C13: vi-change applied to a range [b,e) removes the runes of [b,e) from
\* the buffer, copies them into the register before removal, and ends in
\* insert mode with the cursor at b.
C13_ChangeRange ==
    [][ (ev'.widget = "vi-change" /\ (activeRegion \/ local = visual))
        => /\ line' = RangeCut(Now)
           /\ SavedNext.buf = RangeText(Now)
           /\ main' = viins
           /\ pos' = RangeB(Now) ]_vars

\* C14: vi-oper-swap-case, and vi-swap-case in visual mode, applied to a
\* range [b,e) toggles the case of every rune whose index is in [b,e),
\* leaves every other rune and the buffer length unchanged, and writes no
\* register.
C14_SwapCaseRange ==
    [][ /\ ( /\ ev'.op = "vi-oper-swap-case"
                 /\ ev'.kind \in {"apply", "abort"}
                 /\ SelectionInBuffer(ev'.at) )
           => /\ ~aborted'
              /\ line' = SwapRange(ev'.at.line, RangeB(ev'.at), RangeE(ev'.at))
              /\ registers' = ev'.at.registers
        /\ (ev'.widget = "vi-swap-case" /\ local = visual /\ SelectionInBuffer(Now))
           => /\ ~aborted'
              /\ line' = SwapRange(line, RangeB(Now), RangeE(Now))
              /\ registers' = registers ]_vars

EnteredVisual ==
    /\ ev.widget \in {"visual-mode", "visual-line-mode"}
    /\ main = vicmd /\ local = visual
    /\ visualLine = (ev.widget = "visual-line-mode")

Swapped == [Session EXCEPT !.mark = pos, !.pos = mark]

C18_InsertMode ==
    [][ ev'.widget = "vi-insert-mode"
        => /\ main' = viins /\ local' = ""
           /\ mark' = -1 /\ ~activeRegion' /\ ~visualLine'
           /\ viIteration' = <<>>
           /\ line' = line /\ pos' = pos /\ registers' = registers ]_vars

C18_Witness ==
    /\ ev.widget = "vi-insert-mode" /\ ev.pending = "vi-delete"
    /\ main = viins /\ local = "" /\ mark = -1 /\ pos = 1

MainModeWidgets ==
    { "vi-insert-mode", "vi-cmd-mode", "vi-insert-bol", "vi-add-next",
      "vi-add-eol", "vi-substitute", "vi-change-eol" }

\* C20: every widget that moves the session into the insert or command
\* main mode leaves the local mode cleared, mark unset, activeRegion false
\* and the iteration string empty, whatever state it was invoked from.
C20_MainModeEntryResets ==
    (ev.widget \in MainModeWidgets /\ ev.kind # "abort")
    => /\ local = "" /\ mark = -1 /\ ~activeRegion
       /\ viIteration = <<>>

\* C21: vi-digit-or-beginning-of-line moves the cursor to the beginning of
\* the line and keeps the iteration string empty when it is empty, and
\* appends the digit 0 without moving the cursor when it is not.
C21_ZeroDigitOrMotion ==
    [][ (ev'.widget = "vi-digit-or-beginning-of-line"
         /\ ev'.kind \in {"plain", "digit"})
        => IF viIteration = <<>>
           THEN pos' = 0 /\ viIteration' = <<>>
           ELSE viIteration' = Append(viIteration, "0") /\ pos' = pos ]_vars

C21_Witness ==
    /\ ev.widget = "vi-digit-or-beginning-of-line"
    /\ viIteration = <<"2", "0">> /\ pos = 1

\* C22: vi-goto-column goes to column 0 when the iteration string is empty
\* and to column n when it holds the count n, n = 1 included, whereas for
\* the other widgets an empty iteration string is the count 1.
C22_GotoColumnCount ==
    [][ /\ (ev'.widget = "vi-goto-column" /\ ev'.kind = "plain")
           => pos' = IF viIteration = <<>> THEN 0 ELSE ParseInt(viIteration)
        /\ viIteration = <<>> => Iterations(Session) = 1
        /\ ( /\ ev'.widget = "vi-delete-char" /\ ev'.kind = "plain"
             /\ viIteration = <<>> /\ 0 <= pos /\ pos < Len(line) )
           => line' = Slice(line, 0, pos) \o Slice(line, pos + 1, Len(line)) ]_vars

C22_Witness ==
    /\ ev.widget = "vi-goto-column" /\ ev.kind = "plain"
    /\ nkeys = 2 /\ pos = 1 /\ Len(line) = 3 /\ viIteration = <<>>

\* the widgets whose action is repeated by the count
CountWidgets ==
    { "vi-delete-char", "vi-backward-delete-char", "vi-put-after",
      "vi-put-before", "vi-kill-eol", "vi-substitute", "vi-goto-column",
      "vi-forward-word", "vi-forward-blank-word", "vi-forward-word-end",
      "vi-forward-blank-word-end", "vi-backward-word",
      "vi-backward-blank-word", "vi-find-next-char",
      "vi-find-next-char-skip", "vi-find-prev-char",
      "vi-find-prev-char-skip" }
\* the forward word motions return before their action on an empty buffer
ReturnsEarly(name, s) ==
    /\ name \in {"vi-forward-word", "vi-forward-blank-word"}
    /\ s.pos = 0 /\ Len(s.line) = 0

\* C23: a typed count applies to exactly one command: after a widget that
\* performs its action using the count the iteration string is empty, and
\* the pure navigation widgets vi-forward-char and vi-backward-char leave
\* the iteration string unchanged.
C23_CountUsedOnce ==
    [][ /\ ( /\ ev'.widget \in CountWidgets /\ ~ev'.esc /\ ~aborted'
             /\ ~ReturnsEarly(ev'.widget, Session) )
           => viIteration' = <<>>
        /\ ( /\ ev'.widget \in {"vi-forward-char", "vi-backward-char"}
             /\ ~aborted' )
           => viIteration' = viIteration ]_vars
C23_Witness ==
    /\ ev.widget = "vi-delete-char" /\ ev.kind = "plain" /\ nkeys = 2
    /\ line = <<"A">> /\ viIteration = <<>>

\* C24: at the buffer boundary a word motion stops advancing, for every
\* count: a backward word motion invoked at index 0, and a forward word or
\* word-end motion invoked on the last position, leave pos where it was,
\* and invoking the motion again changes nothing.
C24_WordMotionAtBoundary ==
    LET Stay(w(_)) == /\ w(Session).pos = pos
                      /\ w(w(Session)).pos = pos
                      /\ w(Session).line = line
    IN  /\ pos = 0 => Stay(viBackwardWord) /\ Stay(viBackwardBlankWord)
        /\ (Len(line) > 0 /\ pos = Len(line) - 1)
           => /\ Stay(viForwardWord) /\ Stay(viForwardBlankWord)
              /\ Stay(viForwardWordEnd) /\ Stay(viForwardBlankWordEnd)

\* C25: for the same buffer, cursor, target rune and count, when the
\* non-skip find-char widget lands on the matched rune the skip widget
\* lands one position short of it in the direction of the search: one
\* before it searching forward, one after it searching backward.
C25_SkipOneShort ==
    \A key \in ArgKeys :
        LET next == viFindNextChar(Session, key).pos
            prev == viFindPrevChar(Session, key).pos
        IN  /\ (next # pos /\ At(line, next) = key)
               => viFindNextCharSkip(Session, key).pos = next - 1
            /\ (prev # pos /\ At(line, prev) = key)
               => viFindPrevCharSkip(Session, key).pos = prev + 1
C25_Witness ==
    /\ ev.widget = "vi-find-next-char-skip" /\ ev.kind = "plain"
    /\ nkeys = 1 /\ line = <<"a", " ", "A">> /\ pos = 1
    /\ viFindNextChar(Session, "A").pos = pos + 1

\* C26: when the target rune does not occur in the search direction from
\* the cursor, each of the four find-char widgets leaves the cursor and the
\* buffer unchanged, produces no error, and ends outside operator-pending
\* mode.
C26_FindNoMatch ==
    LET NoMatch(key, forward) ==
            ~\E j \in 0..(Len(line) - 1) :
                At(line, j) = key /\ (IF forward THEN j > pos ELSE j < pos)
        Same(r) == /\ r.pos = pos /\ r.line = line /\ r.ok
                   /\ local # viopp => r.local = local
    IN  /\ \A key \in ArgKeys :
            /\ NoMatch(key, TRUE)
               => /\ Same(viFindNextChar(Session, key))
                  /\ Same(viFindNextCharSkip(Session, key))
            /\ NoMatch(key, FALSE)
               => /\ Same(viFindPrevChar(Session, key))
                  /\ Same(viFindPrevCharSkip(Session, key))
        /\ ( /\ ev.widget \in {"vi-find-next-char", "vi-find-next-char-skip",
                               "vi-find-prev-char", "vi-find-prev-char-skip"}
             /\ ~aborted )
           => local # viopp /\ pendingOp = ""
C26_Witness ==
    /\ ev.widget = "vi-find-prev-char" /\ ev.kind = "plain" /\ ~ev.esc
    /\ nkeys = 1 /\ main = viins /\ Len(line) = 3 /\ pos = Len(line)
    /\ local = "" /\ ~aborted

\* C27: when no quoted object is found around the cursor (no ' or " before
\* the cursor, or the quote found has no partner after it),
\* select-a-shell-word and select-in-shell-word are no-ops: cursor, mark,
\* activeRegion and buffer are unchanged.
C27_ShellWordNotFound ==
    LET Quote(j) == At(line, j) \in {"'", "\""}
        Unpaired ==
            \A j \in 0..(Len(line) - 1) :
                (j < pos /\ Quote(j))
                => ~\E k \in (j + 1)..(Len(line) - 1) : At(line, k) = At(line, j)
        NoOp(r) == /\ r.pos = pos /\ r.mark = mark
                   /\ r.activeRegion = activeRegion /\ r.line = line
    IN  Unpaired => /\ NoOp(viSelectAShellWord(Session))
                    /\ NoOp(viSelectInShellWord(Session))

\* C29: each of the six text-object widgets sets mark and activeRegion only
\* when the local mode is visual or operator-pending; invoked from plain
\* command mode it leaves mark and activeRegion unchanged and only moves
\* the cursor.
C29_TextObjectOutsideRegionMode ==
    LET CursorOnly(r) == /\ r.mark = mark /\ r.activeRegion = activeRegion
                         /\ r.line = line
    IN  (main = vicmd /\ ~InRegionMode(Session))
        => /\ CursorOnly(viSelectAWord(Session))
           /\ CursorOnly(viSelectInWord(Session))
           /\ CursorOnly(viSelectABlankWord(Session))
           /\ CursorOnly(viSelectInBlankWord(Session))
           /\ CursorOnly(viSelectAShellWord(Session))
           /\ CursorOnly(viSelectInShellWord(Session))

\* C28: vi-match-bracket with the cursor on one of (){}[] moves to that
\* bracket's partner by nesting depth; with the cursor on a non-bracket it
\* moves to the nearest following ), ] or } and then to that bracket's
\* partner; with no such following closing bracket the cursor does not
\* move. The buffer is never changed.
C28_MatchBracket ==
    LET PartnerOf(p) == p + viJumpBracket([Session EXCEPT !.pos = p])
        Following == {i \in (pos + 1)..(Len(line) - 1) :
                         At(line, i) \in {")", "]", "}"}}
        r == viMatchBracket(Session)
    IN  InIndex(line, pos)
        => /\ r.line = line /\ r.ok
           /\ r.pos = IF isBracket(At(line, pos)) THEN PartnerOf(pos)
                      ELSE IF Following = {} THEN pos
                      ELSE PartnerOf(MinOf(Following))
C28_Witness ==
    /\ ev.widget = "vi-match-bracket" /\ ev.kind = "plain" /\ nkeys = 1
    /\ line = <<"(", "a", ")">> /\ pos = 0

\* C30: when the key vi-set-buffer reads is escape or is not a valid
\* register key, the register store is exactly as it was before the widget
\* ran: the same register contents and the same armed register, if any.
C30_InvalidRegisterKey ==
    \A key \in {charEscape, "!"} :
        key \notin validRegisterKeys
        => viSetBuffer(Session, key).registers = registers

\* C31: every pure cursor-motion widget (character, word, word-end,
\* end-of-line, beginning-of-line via 0, goto-column, first-non-blank,
\* find-char, match-bracket) leaves the buffer unchanged and sets the
\* undo-skip flag for its invocation.
C31_MotionSkipsUndo ==
    LET Motion(r) == r.ok => (r.line = line /\ r.viUndoSkipAppend)
    IN  /\ Motion(viForwardChar(Session)) /\ Motion(viBackwardChar(Session))
        /\ Motion(viForwardWord(Session)) /\ Motion(viBackwardWord(Session))
        /\ Motion(viForwardBlankWord(Session))
        /\ Motion(viBackwardBlankWord(Session))
        /\ Motion(viForwardWordEnd(Session))
        /\ Motion(viForwardBlankWordEnd(Session))
        /\ Motion(viEndOfLine(Session))
        /\ viIteration = <<>> => Motion(viDigitOrBeginningOfLine(Session))
        /\ Motion(viGotoColumn(Session))
        /\ Motion(viFirstNonBlank(Session))
        /\ Motion(viMatchBracket(Session))
        /\ \A key \in ArgKeys :
               /\ Motion(viFindNextChar(Session, key))
               /\ Motion(viFindNextCharSkip(Session, key))
               /\ Motion(viFindPrevChar(Session, key))
               /\ Motion(viFindPrevCharSkip(Session, key))

\* C32: one invocation of vi-replace records exactly one undo checkpoint,
\* taken before the first replacement, however many characters are
\* replaced or restored before escape: no step of the loop records one,
\* the undo-skip flag is set for the invocation, and when the loop has
\* ended on escape operator-pending mode is exited. Stated for every
\* state in which the widget can be invoked.
C32_ReplaceOneCheckpoint ==
    (~aborted /\ nkeys < MaxKeys)
    => \A ks \in ReplaceInputs :
           LET r == viReplace(Session, ks)
           IN  r.ok => /\ r.undoHistory = <<line>>
                       /\ r.viUndoSkipAppend
                       /\ local # viopp => r.local = local
C32_Witness ==
    /\ ev.widget = "vi-replace" /\ nkeys = 1 /\ ~aborted
    /\ line = <<"A", "A">> /\ pos = 1 /\ local # viopp /\ viUndoSkipAppend

C34_BadPatternNoOp ==
    \A r \in {<<>>} \cup {<<c>> : c \in FindRunes} :
        LET g == updateTabFind(FindState, r)
        IN  ~GroupsClosed(tfLine \o r, 0)
            => /\ g.hintText = <<"Failed to match search regexp">>
               /\ g.tfLine = tfLine
               /\ g.regexSearch = regexSearch
               /\ g.nCompletion = nCompletion

\* C35: vi-kill-eol and vi-change-eol invoked at cursor position p save to
\* the register exactly the text they remove, the runes from index p to
\* the end, and leave the first p runes as the buffer; vi-kill-eol then
\* leaves the cursor on the last remaining rune (or at 0 for an empty
\* buffer) and vi-change-eol ends in insert mode.
C35_KillAndChangeEol ==
    LET Saved(r) == IF registers.onRegister
                    THEN r.registers.named[registers.current].buf
                    ELSE r.registers.unnamed.buf
        Cut(r)   == /\ r.ok
                    /\ Saved(r) = Slice(line, pos, Len(line))
                    /\ r.line = Slice(line, 0, pos)
        k        == viKillEol(Session)
    IN  (0 <= pos /\ pos <= Len(line))
        => /\ Cut(k)
           /\ k.pos = IF pos > 0 THEN pos - 1 ELSE 0
           /\ \A spare \in BOOLEAN, stale \in {NUL, "a"} :
                  LET c == viChangeEol(Session, spare, stale)
                  IN  Cut(c) /\ c.main = viins

\* C36: in replace mode, typing k replacement characters and then k
\* backspaces restores the buffer to its content before vi-replace began,
\* for every starting cursor position, also when some of the k characters
\* were typed at or past the end of the line and were appended.
C36_ReplaceThenBackspace ==
    \A ks \in ReplaceInputs :
        LET k == Len(ks) \div 2
            r == viReplace(Session, ks)
        IN  ( /\ Len(ks) = 2 * k /\ k >= 1
              /\ \A i \in 1..k : ks[i] # charBackspace
              /\ \A i \in (k + 1)..(2 * k) : ks[i] = charBackspace
              /\ r.ok )
            => r.line = line

\* C37: vi-first-non-blank moves the cursor to the index of the first rune
\* of the buffer that is not a blank, leaves the cursor unchanged when the
\* buffer has no such rune, and never changes the buffer.
C37_FirstNonBlank ==
    LET NonBlank == {i \in 0..(Len(line) - 1) : At(line, i) # " "}
        r        == viFirstNonBlank(Session)
    IN  /\ r.line = line
        /\ r.pos = IF NonBlank = {} THEN pos ELSE MinOf(NonBlank)

====
